---- MODULE Spec2Model ----
(***************************************************************************)
(* Verification harness of sort-research-rs (tests/main.rs) and the        *)
(* cross-language comparator shim (src/ffi_util.rs).                       *)
(*                                                                         *)
(* The subject sorter (sort_comp::stable::rust_new) and the pattern source *)
(* (sort_comp::patterns) are collaborators of the harness: the sorter is   *)
(* modelled as the stable insertion sort with a guarded hole, the pattern  *)
(* source as an arbitrary sequence of the requested length.                *)
(***************************************************************************)
EXTENDS Integers, Sequences, FiniteSets

\* ---------------------------------------------------------------- bounds
MaxLen == 3        \* largest test size modelled: TEST_SIZES is cut to 0..MaxLen
MaxVal == 1        \* element values are -1..MaxVal
RandLen == 3       \* length of random_orderings (5_000 in the test)
MaxKey == 1        \* stability: keys are 0..MaxKey (0..8 in the test)
RandValsLen == 4   \* stability: length of rand_vals (5_000 in the test)
MaxStabLen == 3    \* stability: lengths 2..MaxStabLen (2..24, 500..509 in the test)
Rounds == 2        \* stability: rounds per length (10 in the test)
MaxCalls == 3      \* shim: comparator calls one foreign sort makes
NThreads == 2      \* seed: test threads of the process
MaxIter == 2       \* seed: test sizes each test thread works through
MaxSeed == 1       \* seed: the seed is one of 1..MaxSeed

\* --------------------------------------------------- program constants
SmallLimit == 100  \* sort_comp: is_small_test

Vals == (-1)..MaxVal
TestSizes == 0..MaxLen
Orderings == <<"Less", "Equal", "Greater">>

\* ----------------------------------------------------------------- state
VARIABLES
    test,               \* which #[test] runs: "panic", "violate", "observable"
    pc,                 \* position in the test body
    size,               \* test_size of the current iteration
    variant,            \* index of comp_func in invalid_ord_comp_functions
    test_data,          \* the generated input (values)
    sum_before,         \* sum of test_data before sort_by
    res,                \* result of panic::catch_unwind: "none", "ok", "err"
    buf,                \* the slice handed to sort_by: records [val, cc]
    sphase,             \* sorter: "idle", "called", "head", "shift", "returned", "unwound"
    si, sj,             \* sorter: index of the tail being inserted, scan index
    tmp,                \* sorter: the element held outside the slice (<<>> if none)
    dest,               \* sorter: position of the hole
    cmp,                \* the comparator passed to sort_by
    random_orderings, random_idx,
    last_element_a, last_element_b,
    comp_counter, panic_threshold, required_comps,
    comp_count_gloabl

sortVars == <<test, pc, size, variant, test_data, sum_before, res, buf, sphase,
              si, sj, tmp, dest, cmp, random_orderings, random_idx,
              last_element_a, last_element_b, comp_counter, panic_threshold,
              required_comps, comp_count_gloabl>>

VARIABLES
    c_pc,               \* sort_comp: "start", "subject", "zip", "passed", "failed"
    original_clone, stdlib_sorted, testsort_sorted,
    ck,                 \* sort_comp: position of the zip loop
    report,             \* sort_comp: where a mismatch was reported
    seed                \* sort_comp: the local seed

compVars == <<c_pc, original_clone, stdlib_sorted, testsort_sorted, ck, report, seed>>

VARIABLES
    st_pc,              \* stability: "gen", "sort", "assert", "done", "failed"
    rand_vals, rand_idx,
    len, round,         \* stability: the loop variables
    orig,               \* stability: the (key, occurrence) pairs generated
    v_idx,              \* stability: v after sort_by, as indices into orig
    asserted            \* stability: outcome of the assert!: "none", "pass", "fail"

stabVars == <<st_pc, rand_vals, rand_idx, len, round, orig, v_idx, asserted>>

VARIABLES
    f_pc,               \* make_cpp_sort_by: position in the macro body
    ctx,                \* the closure: "none", "raw", "boxed", "dropped"
    drops,              \* how often the closure was dropped
    calls,              \* the comparator calls the foreign sort made
    ret_code            \* what the foreign sort returned

ffiVars == <<f_pc, ctx, drops, calls, ret_code>>

VARIABLES
    seed_value,         \* patterns: the process-wide seed (0: not initialised)
    SEED_WRITTEN,       \* the bool inside the static Mutex
    lock_owner,         \* the thread holding SEED_WRITTEN's lock (0: free)
    first_locker,       \* the first thread that took the lock (0: none yet)
    stdout,             \* the seed lines written: records [seed, by]
    returned,           \* the values get_or_init_random_seed has returned
    tkind, tpc,         \* per test thread: the test it runs, its position
    tseed,              \* per test thread: the local seed
    titer,              \* per test thread: test sizes done
    tgen, tsorted       \* per test thread: generated seeded input / called the sorter

seedVars == <<seed_value, SEED_WRITTEN, lock_owner, first_locker, stdout, returned,
              tkind, tpc, tseed, titer, tgen, tsorted>>

vars == <<sortVars, compVars, stabVars, ffiVars, seedVars>>

\* --------------------------------------------------------------- helpers
RECURSIVE Sum(_)
Sum(s) == IF s = <<>> THEN 0 ELSE s[1] + Sum(Tail(s))

ValsOf(b) == [k \in 1..Len(b) |-> b[k].val]
CountsOf(b) == [k \in 1..Len(b) |-> b[k].cc]

\* The multiset of a sequence of values: how often each value occurs.
BagOf(s) == [x \in Vals |-> Cardinality({k \in 1..Len(s) : s[k] = x})]

\* CompCount::new, and the plain i32 elements (their counter stays 0).
NewElem(x) == [val |-> x, cc |-> 0]
Elems(s) == [k \in 1..Len(s) |-> NewElem(s[k])]

\* patterns::random(size): some sequence of that length.
Inputs(n) == [1..n -> Vals]

\* i32::cmp
Cmp(x, y) == IF x < y THEN "Less" ELSE IF x = y THEN "Equal" ELSE "Greater"

\* ----------------------------------------------------------- comparators
\* violate_ord_retain_original_set, closure 0: the next random ordering.
RandomOrdering == Orderings[random_orderings[random_idx + 1] + 1]

NextRandomIdx == IF random_idx + 1 = Len(random_orderings) THEN 0 ELSE random_idx + 1

\* closure 4: equal means less, else greater.
EqualMeansLess(a, b) == IF a = b THEN "Less" ELSE "Greater"

\* closure 5: transitive breaker, remembers the last operands.
TransitiveBreaker(a, b) ==
    IF a = last_element_a /\ b # last_element_b THEN Cmp(b, a) ELSE Cmp(a, b)

\* panic_retain_original_set: panics when the counter is at the threshold.
PanicAtThreshold(a, b) ==
    IF comp_counter = panic_threshold THEN "Panic" ELSE Cmp(a, b)

VariantName == <<"random", "less", "equal", "greater", "eqless", "nontrans">>

\* The answer of the comparator passed to sort_by for operands a, b.
CompOutcome(a, b) ==
    CASE cmp = "random"   -> RandomOrdering
      [] cmp = "less"     -> "Less"
      [] cmp = "equal"    -> "Equal"
      [] cmp = "greater"  -> "Greater"
      [] cmp = "eqless"   -> EqualMeansLess(a.val, b.val)
      [] cmp = "nontrans" -> TransitiveBreaker(a.val, b.val)
      [] cmp = "panic"    -> PanicAtThreshold(a.val, b.val)
      [] cmp = "count"    -> Cmp(a.val, b.val)
      [] cmp = "observe"  -> Cmp(a.val, b.val)

\* observable_is_less: the comparator counts on both operands.
IncA(e) == [e EXCEPT !.cc = @ + 1]
IncB_dropped(e) == e
IncB(e) == [e EXCEPT !.cc = @ + 1]

SeenA(e) == IF cmp = "observe" THEN IncA(e) ELSE e
SeenB(e) == IF cmp = "observe" THEN IncB(e) ELSE e

\* What one comparator invocation does to the state its closure captured.
CompEffects(a, b) ==
    /\ random_idx' = IF cmp = "random" THEN NextRandomIdx ELSE random_idx
    /\ last_element_a' = IF cmp = "nontrans" THEN a.val ELSE last_element_a
    /\ last_element_b' = IF cmp = "nontrans" THEN b.val ELSE last_element_b
    /\ comp_counter' =
          IF cmp = "count" \/ (cmp = "panic" /\ CompOutcome(a, b) # "Panic")
          THEN comp_counter + 1 ELSE comp_counter
    /\ comp_count_gloabl' =
          IF cmp = "observe" THEN comp_count_gloabl + 1 ELSE comp_count_gloabl
    /\ UNCHANGED <<random_orderings, panic_threshold, required_comps>>

compState == <<random_orderings, random_idx, last_element_a, last_element_b,
               comp_counter, panic_threshold, required_comps, comp_count_gloabl>>
testState == <<test, pc, size, variant, test_data, sum_before, res, cmp>>

\* ---------------------------------------------------------------- sorter
\* The guard of the hole: on every exit, the held element goes back to dest.
HoleDrop_leak(b, d, t) == b
HoleDrop(b, d, t) == [b EXCEPT ![d] = t]

\* After the element at index i is in place: the next tail, or the end.
Advance(i) ==
    IF i + 1 <= Len(buf)
    THEN /\ sphase' = "head" /\ si' = i + 1
    ELSE /\ sphase' = "returned" /\ si' = 0

SortEnter ==
    /\ UNCHANGED <<compVars, stabVars, ffiVars, seedVars>>
    /\ sphase = "called"
    /\ IF Len(buf) < 2
       THEN sphase' = "returned" /\ si' = 0
       ELSE sphase' = "head" /\ si' = 2
    /\ UNCHANGED <<testState, compState, buf, sj, tmp, dest>>

\* insert_tail: compare the tail with its left neighbour; open the hole.
SortHead ==
    /\ UNCHANGED <<compVars, stabVars, ffiVars, seedVars>>
    /\ sphase = "head"
    /\ LET a == buf[si]
           b == buf[si - 1]
           o == CompOutcome(a, b)
           a2 == SeenA(a)
           b2 == SeenB(b)
           seen == [buf EXCEPT ![si] = a2, ![si - 1] = b2]
       IN  /\ CompEffects(a, b)
           /\ CASE o = "Panic" ->
                     /\ buf' = seen
                     /\ sphase' = "unwound"
                     /\ UNCHANGED <<si, sj, tmp, dest>>
                [] o = "Less" /\ si - 2 >= 1 ->
                     /\ buf' = [seen EXCEPT ![si] = b2]
                     /\ tmp' = <<a2>>
                     /\ dest' = si - 1
                     /\ sj' = si - 2
                     /\ sphase' = "shift"
                     /\ si' = si
                [] o = "Less" /\ si - 2 < 1 ->
                     /\ buf' = HoleDrop([seen EXCEPT ![si] = b2], si - 1, a2)
                     /\ Advance(si)
                     /\ UNCHANGED <<sj, tmp, dest>>
                [] OTHER ->
                     /\ buf' = seen
                     /\ Advance(si)
                     /\ UNCHANGED <<sj, tmp, dest>>
    /\ UNCHANGED testState

\* insert_tail: compare the held element with the next one to the left.
SortShift ==
    /\ UNCHANGED <<compVars, stabVars, ffiVars, seedVars>>
    /\ sphase = "shift"
    /\ LET a == tmp[1]
           b == buf[sj]
           o == CompOutcome(a, b)
           a2 == SeenA(a)
           b2 == SeenB(b)
           seen == [buf EXCEPT ![sj] = b2]
       IN  /\ CompEffects(a, b)
           /\ CASE o = "Panic" ->
                     /\ buf' = HoleDrop(seen, dest, a2)
                     /\ sphase' = "unwound"
                     /\ tmp' = <<>>
                     /\ UNCHANGED <<si, sj, dest>>
                [] o = "Less" /\ sj - 1 >= 1 ->
                     /\ buf' = [seen EXCEPT ![sj + 1] = b2]
                     /\ tmp' = <<a2>>
                     /\ dest' = sj
                     /\ sj' = sj - 1
                     /\ UNCHANGED <<si, sphase>>
                [] o = "Less" /\ sj - 1 < 1 ->
                     /\ buf' = HoleDrop([seen EXCEPT ![sj + 1] = b2], sj, a2)
                     /\ tmp' = <<>>
                     /\ Advance(si)
                     /\ UNCHANGED <<sj, dest>>
                [] OTHER ->
                     /\ buf' = HoleDrop(seen, dest, a2)
                     /\ tmp' = <<>>
                     /\ Advance(si)
                     /\ UNCHANGED <<sj, dest>>
    /\ UNCHANGED testState

\* ------------------------------------- violate_ord_retain_original_set
\* The closures capture random_idx and last_element_a/b by reference: the
\* state a sort_by call starts from is whatever the variables hold.
StateAtSortStart_fresh == <<0, -1, -1>>
StateAtSortStart == <<random_idx, last_element_a, last_element_b>>

ViolateStart ==
    /\ UNCHANGED <<compVars, stabVars, ffiVars, seedVars>>
    /\ test = "violate" /\ pc = "gen"
    /\ \E data \in Inputs(size) :
          /\ test_data' = data
          /\ sum_before' = Sum(data)
          /\ buf' = Elems(data)
    /\ cmp' = VariantName[variant + 1]
    /\ random_idx' = StateAtSortStart[1]
    /\ last_element_a' = StateAtSortStart[2]
    /\ last_element_b' = StateAtSortStart[3]
    /\ sphase' = "called"
    /\ pc' = "sort"
    /\ UNCHANGED <<test, size, variant, res, si, sj, tmp, dest, random_orderings,
                   comp_counter, panic_threshold, required_comps, comp_count_gloabl>>

ViolateCheck ==
    /\ UNCHANGED <<compVars, stabVars, ffiVars, seedVars>>
    /\ test = "violate" /\ pc = "sort" /\ sphase = "returned"
    /\ sphase' = "idle"
    /\ IF Sum(ValsOf(buf)) # sum_before
       THEN pc' = "failed" /\ UNCHANGED <<size, variant>>
       ELSE IF size < MaxLen
       THEN pc' = "gen" /\ size' = size + 1 /\ UNCHANGED variant
       ELSE IF variant + 1 < Len(VariantName)
       THEN pc' = "gen" /\ size' = 0 /\ variant' = variant + 1
       ELSE pc' = "done" /\ UNCHANGED <<size, variant>>
    /\ UNCHANGED <<test, test_data, sum_before, res, cmp, buf, si, sj, tmp, dest,
                   compState>>

\* ------------------------------------------- panic_retain_original_set
\* random_uniform(1, 1..required_comps)[0] - 1: the values panic_threshold can take.
PanicThresholds_inclusive(r) == {d : d \in 1..r}
PanicThresholds(r) == {d - 1 : d \in 1..(r - 1)}

\* One iteration: generate the input, then calc_comps_required on a clone.
PanicGen ==
    /\ UNCHANGED <<compVars, stabVars, ffiVars, seedVars>>
    /\ test = "panic" /\ pc = "gen"
    /\ \E n \in {k \in TestSizes : k >= 2} : \E data \in Inputs(n) :
          /\ size' = n
          /\ test_data' = data
          /\ sum_before' = Sum(data)
          /\ buf' = Elems(data)
    /\ cmp' = "count"
    /\ comp_counter' = 0
    /\ sphase' = "called"
    /\ pc' = "dry"
    /\ res' = "none"
    /\ UNCHANGED <<test, variant, si, sj, tmp, dest, random_orderings, random_idx,
                   last_element_a, last_element_b, panic_threshold, required_comps,
                   comp_count_gloabl>>

\* The dry run returned: draw the threshold and call sort_by under catch_unwind.
PanicPick ==
    /\ UNCHANGED <<compVars, stabVars, ffiVars, seedVars>>
    /\ test = "panic" /\ pc = "dry" /\ sphase = "returned"
    /\ required_comps' = comp_counter
    /\ \E t \in PanicThresholds(comp_counter) : panic_threshold' = t
    /\ comp_counter' = 0
    /\ buf' = Elems(test_data)
    /\ cmp' = "panic"
    /\ sphase' = "called"
    /\ pc' = "sort"
    /\ UNCHANGED <<test, size, variant, test_data, sum_before, res, si, sj, tmp, dest,
                   random_orderings, random_idx, last_element_a, last_element_b,
                   comp_count_gloabl>>

\* The range 1..required_comps is empty: there is no threshold to draw.
PanicPickEmpty ==
    /\ UNCHANGED <<compVars, stabVars, ffiVars, seedVars>>
    /\ test = "panic" /\ pc = "dry" /\ sphase = "returned"
    /\ PanicThresholds(comp_counter) = {}
    /\ required_comps' = comp_counter
    /\ pc' = "norange"
    /\ sphase' = "idle"
    /\ UNCHANGED <<test, size, variant, test_data, sum_before, res, buf, si, sj, tmp,
                   dest, cmp, random_orderings, random_idx, last_element_a,
                   last_element_b, comp_counter, panic_threshold, comp_count_gloabl>>

\* assert!(res.is_err()); assert_eq!(sum_before, sum_after)
PanicCheck ==
    /\ UNCHANGED <<compVars, stabVars, ffiVars, seedVars>>
    /\ test = "panic" /\ pc = "sort" /\ sphase \in {"returned", "unwound"}
    /\ res' = IF sphase = "unwound" THEN "err" ELSE "ok"
    /\ pc' = IF sphase # "unwound" \/ Sum(ValsOf(buf)) # sum_before
             THEN "failed" ELSE "gen"
    /\ sphase' = "idle"
    /\ UNCHANGED <<test, size, variant, test_data, sum_before, cmp, buf, si, sj, tmp,
                   dest, compState>>

\* -------------------------------------------------- observable_is_less
ObsStart ==
    /\ UNCHANGED <<compVars, stabVars, ffiVars, seedVars>>
    /\ test = "observable" /\ pc = "gen"
    /\ \E n \in TestSizes : \E pattern \in Inputs(n) :
          /\ size' = n
          /\ test_data' = pattern
          /\ buf' = Elems(pattern)
    /\ comp_count_gloabl' = 0
    /\ cmp' = "observe"
    /\ sphase' = "called"
    /\ pc' = "sort"
    /\ UNCHANGED <<test, variant, sum_before, res, si, sj, tmp, dest, random_orderings,
                   random_idx, last_element_a, last_element_b, comp_counter,
                   panic_threshold, required_comps>>

\* assert_eq!(total_inner, comp_count_gloabl * 2)
ObsCheck ==
    /\ UNCHANGED <<compVars, stabVars, ffiVars, seedVars>>
    /\ test = "observable" /\ pc = "sort" /\ sphase = "returned"
    /\ pc' = IF Sum(CountsOf(buf)) = comp_count_gloabl * 2 THEN "gen" ELSE "failed"
    /\ sphase' = "idle"
    /\ UNCHANGED <<test, size, variant, test_data, sum_before, res, cmp, buf, si, sj,
                   tmp, dest, compState>>

\* ------------------------------------------------------- specification
SortIdle ==
    /\ pc = "gen" /\ size = 0 /\ variant = 0
    /\ test_data = <<>> /\ sum_before = 0 /\ res = "none"
    /\ buf = <<>> /\ sphase = "idle" /\ si = 0 /\ sj = 0 /\ tmp = <<>> /\ dest = 0
    /\ cmp = "none"
    /\ random_idx = 0 /\ last_element_a = -1 /\ last_element_b = -1
    /\ comp_counter = 0 /\ panic_threshold = 0 /\ required_comps = 0
    /\ comp_count_gloabl = 0

SortOff == test = "none" /\ random_orderings = <<>> /\ SortIdle

CompOff ==
    /\ c_pc = "off" /\ original_clone = <<>> /\ stdlib_sorted = <<>>
    /\ testsort_sorted = <<>> /\ ck = 0 /\ report = "none" /\ seed = 0

StabOff ==
    /\ st_pc = "off" /\ rand_vals = <<>> /\ rand_idx = 0 /\ len = 0 /\ round = 0
    /\ orig = <<>> /\ v_idx = <<>> /\ asserted = "none"

FfiOff == f_pc = "off" /\ ctx = "none" /\ drops = 0 /\ calls = <<>> /\ ret_code = 0

SeedFresh ==
    /\ seed_value = 0 /\ SEED_WRITTEN = FALSE /\ lock_owner = 0 /\ first_locker = 0
    /\ stdout = <<>> /\ returned = {}

SeedOff ==
    /\ SeedFresh
    /\ tkind = <<>> /\ tpc = <<>> /\ tseed = <<>> /\ titer = <<>>
    /\ tgen = <<>> /\ tsorted = <<>>

InitSort ==
    /\ CompOff /\ StabOff /\ FfiOff /\ SeedOff
    /\ test \in {"panic", "violate", "observable"}
    /\ IF test = "violate"
       THEN random_orderings \in [1..RandLen -> 0..1]
       ELSE random_orderings = <<>>
    /\ SortIdle

NextSort ==
    \/ SortEnter \/ SortHead \/ SortShift
    \/ ViolateStart \/ ViolateCheck
    \/ PanicGen \/ PanicPick \/ PanicPickEmpty \/ PanicCheck
    \/ ObsStart \/ ObsCheck

SpecSort == InitSort /\ [][NextSort]_vars


\* ============================================================ sort_comp
Range(s) == {s[k] : k \in 1..Len(s)}

\* slice::sort on the copy, the oracle: insertion into a sorted sequence.
RECURSIVE InsertSorted(_, _)
InsertSorted(x, s) ==
    IF s = <<>> THEN <<x>>
    ELSE IF x < s[1] THEN <<x>> \o s
    ELSE <<s[1]>> \o InsertSorted(x, Tail(s))

RECURSIVE SortedSeq(_)
SortedSeq(s) == IF s = <<>> THEN <<>> ELSE InsertSorted(s[1], SortedSeq(Tail(s)))

\* The inputs of basic(), and what test_impl's patterns produce.
BasicInputs ==
    { <<>>, <<2, 3>>, <<2, 3, 6>>, <<2, 3, 99, 6>>, <<2, 7709, 400, 90932>>,
      <<15, -1, 3, -1, -3, -1, 7>> }

CompInputs == BasicInputs \cup UNION {Inputs(n) : n \in TestSizes}

\* test_sort::sort works in place on the slice: it cannot change the length,
\* and is otherwise untrusted.
SubjectResults(v) ==
    [1..Len(v) -> Range(v)] \cup
    (IF Len(v) <= MaxLen /\ Range(v) \subseteq Vals THEN [1..Len(v) -> Vals] ELSE {})

\* The seed get_or_init_random_seed reads: random_init_seed initialises the
\* process-wide seed on first use and returns it unchanged afterwards.
SeedChoices == IF seed_value = 0 THEN 1..MaxSeed ELSE {seed_value}

\* if !*seed_writer
NeedsWrite_always == TRUE
NeedsWrite == ~SEED_WRITTEN

\* The line written to stdout.
SeedLine(s, t) == [seed |-> s, by |-> t]

\* a != b in the zip loop
Differs_less(a, b) == a < b
Differs(a, b) == a # b

\* sort_comp up to the call of the subject: the seed (get_or_init_random_seed
\* as a whole, there is one thread), the clones, the oracle's sort.
CompStart ==
    /\ UNCHANGED <<sortVars, stabVars, ffiVars>>
    /\ c_pc = "start"
    /\ \E s \in SeedChoices :
          /\ seed_value' = s
          /\ seed' = s
          /\ stdout' = IF NeedsWrite THEN Append(stdout, SeedLine(s, 0)) ELSE stdout
          /\ SEED_WRITTEN' = TRUE
          /\ returned' = returned \cup {s}
    /\ \E v \in CompInputs :
          /\ original_clone' = v
          /\ stdlib_sorted' = SortedSeq(v)
    /\ testsort_sorted' = <<>>
    /\ ck' = 0
    /\ report' = "none"
    /\ c_pc' = "subject"
    /\ UNCHANGED <<lock_owner, first_locker, tkind, tpc, tseed, titer, tgen, tsorted>>

\* test_sort::sort(testsort_sorted); assert_eq! on the lengths
CompSubject ==
    /\ UNCHANGED <<sortVars, stabVars, ffiVars, seedVars>>
    /\ c_pc = "subject"
    /\ \E r \in SubjectResults(original_clone) : testsort_sorted' = r
    /\ ck' = 1
    /\ c_pc' = IF Len(stdlib_sorted) = Len(testsort_sorted') THEN "zip" ELSE "failed"
    /\ UNCHANGED <<original_clone, stdlib_sorted, report, seed>>

\* One round of the zip loop: report and panic on a difference.
CompZip ==
    /\ UNCHANGED <<sortVars, stabVars, ffiVars, seedVars>>
    /\ c_pc = "zip"
    /\ IF ck > Len(stdlib_sorted)
       THEN c_pc' = "passed" /\ UNCHANGED <<ck, report>>
       ELSE IF Differs(stdlib_sorted[ck], testsort_sorted[ck])
       THEN /\ report' = IF Len(original_clone) <= SmallLimit THEN "stderr" ELSE "files"
            /\ c_pc' = "failed"
            /\ UNCHANGED ck
       ELSE ck' = ck + 1 /\ UNCHANGED <<c_pc, report>>
    /\ UNCHANGED <<original_clone, stdlib_sorted, testsort_sorted, seed>>

\* The caller goes on to its next sort_comp call.
CompNext ==
    /\ UNCHANGED <<sortVars, stabVars, ffiVars, seedVars>>
    /\ c_pc = "passed"
    /\ c_pc' = "start"
    /\ UNCHANGED <<original_clone, stdlib_sorted, testsort_sorted, ck, report, seed>>

InitComp ==
    /\ SortOff /\ StabOff /\ FfiOff /\ SeedOff
    /\ c_pc = "start" /\ original_clone = <<>> /\ stdlib_sorted = <<>>
    /\ testsort_sorted = <<>> /\ ck = 0 /\ report = "none" /\ seed = 0

NextComp == CompStart \/ CompSubject \/ CompZip \/ CompNext

SpecComp == InitComp /\ [][NextComp]_vars


\* ============================================================ stability
\* rand_idx += 1; if rand_idx >= rand_vals.len() { rand_idx = 0 }
NextRandIdx(i) == IF i + 1 >= Len(rand_vals) THEN 0 ELSE i + 1

\* counts[n] += 1; (n, counts[n]): the occurrence number of the k-th value.
Occurrence(counts, n) == counts[n] + 1

\* The map closure of orig, run k times from index idx with the counts so far:
\* the pairs generated and the index reached.
RECURSIVE GenPairs(_, _, _)
GenPairs(k, idx, counts) ==
    IF k = 0 THEN [pairs |-> <<>>, idx |-> idx]
    ELSE LET n == rand_vals[idx + 1]
             c == Occurrence(counts, n)
             rest == GenPairs(k - 1, NextRandIdx(idx), [counts EXCEPT ![n] = c])
         IN  [pairs |-> <<<<n, c>>>> \o rest.pairs, idx |-> rest.idx]

\* (i32, i32) <= (i32, i32): lexicographic.
PairLe_keyonly(p, q) == p[1] <= q[1]
PairLe(p, q) == p[1] < q[1] \/ (p[1] = q[1] /\ p[2] <= q[2])

\* v after sort_by: orig rearranged by v_idx.
V == [k \in 1..Len(v_idx) |-> orig[v_idx[k]]]

\* sort_by on the key alone rearranges v; which rearrangement is the sorter's.
Perms(n) == {f \in [1..n -> 1..n] : \A i, j \in 1..n : i # j => f[i] # f[j]}

\* let orig = (0..len).map(..).collect(), with counts = [0; 10]
StabGen ==
    /\ UNCHANGED <<sortVars, compVars, ffiVars, seedVars>>
    /\ st_pc = "gen"
    /\ LET g == GenPairs(len, rand_idx, [n \in 0..MaxKey |-> 0])
       IN  orig' = g.pairs /\ rand_idx' = g.idx
    /\ v_idx' = [k \in 1..len |-> k]
    /\ asserted' = "none"
    /\ st_pc' = "sort"
    /\ UNCHANGED <<rand_vals, len, round>>

\* test_sort::sort_by(&mut v, |&(a, _), &(b, _)| a.cmp(&b))
StabSort ==
    /\ UNCHANGED <<sortVars, compVars, ffiVars, seedVars>>
    /\ st_pc = "sort"
    /\ \E f \in Perms(len) : v_idx' = f
    /\ st_pc' = "assert"
    /\ UNCHANGED <<rand_vals, rand_idx, len, round, orig, asserted>>

\* assert!(v.windows(2).all(|w| w[0] <= w[1])), then the next round or length.
StabAssert ==
    /\ UNCHANGED <<sortVars, compVars, ffiVars, seedVars>>
    /\ st_pc = "assert"
    /\ IF \A k \in 1..(len - 1) : PairLe(V[k], V[k + 1])
       THEN /\ asserted' = "pass"
            /\ IF round + 1 < Rounds
               THEN st_pc' = "gen" /\ round' = round + 1 /\ UNCHANGED len
               ELSE IF len + 1 <= MaxStabLen
               THEN st_pc' = "gen" /\ round' = 0 /\ len' = len + 1
               ELSE st_pc' = "done" /\ UNCHANGED <<len, round>>
       ELSE /\ asserted' = "fail"
            /\ st_pc' = "failed"
            /\ UNCHANGED <<len, round>>
    /\ UNCHANGED <<rand_vals, rand_idx, orig, v_idx>>

InitStab ==
    /\ SortOff /\ CompOff /\ FfiOff /\ SeedOff
    /\ rand_vals \in [1..RandValsLen -> 0..MaxKey]
    /\ st_pc = "gen" /\ rand_idx = 0 /\ len = 2 /\ round = 0
    /\ orig = <<>> /\ v_idx = <<>> /\ asserted = "none"

NextStab == StabGen \/ StabSort \/ StabAssert

SpecStab == InitStab /\ [][NextStab]_vars


\* ===================================================== comparator shim
\* What the host closure does when called: an Ordering, or a panic.
Outcomes == {"Less", "Equal", "Greater", "Panic"}

\* rust_fn_cmp: the closure runs inside catch_unwind; unwinds says whether
\* an unwind leaves the function towards its foreign caller.
rust_fn_cmp_uncaught(outcome) ==
    IF outcome = "Panic"
    THEN [is_less |-> FALSE, is_panic |-> FALSE, unwinds |-> TRUE]
    ELSE [is_less |-> outcome = "Less", is_panic |-> FALSE, unwinds |-> FALSE]
rust_fn_cmp(outcome) ==
    IF outcome = "Panic"
    THEN [is_less |-> FALSE, is_panic |-> TRUE, unwinds |-> FALSE]
    ELSE [is_less |-> outcome = "Less", is_panic |-> FALSE, unwinds |-> FALSE]

\* The foreign sort driver: it stops at the first is_panic and reports it by
\* its return code.
SawPanic == \E k \in 1..Len(calls) : calls[k].result.is_panic
ForeignRetCode == IF SawPanic THEN 1 ELSE 0

\* Box::from_raw comes before the test of ret_code: it runs on both paths.
ReclaimsOn_success(r) == r = 0
ReclaimsOn(r) == TRUE

\* Box::into_raw(Box::new($compare))
FfiBox ==
    /\ UNCHANGED <<sortVars, compVars, stabVars, seedVars>>
    /\ f_pc = "start"
    /\ ctx' = "raw"
    /\ f_pc' = "foreign"
    /\ UNCHANGED <<drops, calls, ret_code>>

\* The foreign sort calls the comparator through rust_fn_cmp.
FfiCompare ==
    /\ UNCHANGED <<sortVars, compVars, stabVars, seedVars>>
    /\ f_pc = "foreign" /\ ctx = "raw"
    /\ Len(calls) < MaxCalls /\ ~SawPanic
    /\ \E o \in Outcomes :
          calls' = Append(calls, [outcome |-> o, result |-> rust_fn_cmp(o)])
    /\ UNCHANGED <<f_pc, ctx, drops, ret_code>>

\* The foreign sort returns its code; the host takes the closure back.
FfiReturn ==
    /\ UNCHANGED <<sortVars, compVars, stabVars, seedVars>>
    /\ f_pc = "foreign"
    /\ ret_code' = ForeignRetCode
    /\ ctx' = IF ReclaimsOn(ret_code') THEN "boxed" ELSE ctx
    /\ f_pc' = "owned"
    /\ UNCHANGED <<drops, calls>>

\* ret_code is 0: the block ends, _cmp_fn_box goes out of scope.
FfiEnd ==
    /\ UNCHANGED <<sortVars, compVars, stabVars, seedVars>>
    /\ f_pc = "owned" /\ ret_code = 0
    /\ ctx' = IF ctx = "boxed" THEN "dropped" ELSE ctx
    /\ drops' = IF ctx = "boxed" THEN drops + 1 ELSE drops
    /\ f_pc' = "done"
    /\ UNCHANGED <<calls, ret_code>>

\* ret_code is not 0: panic!("Panic in comparison function")
FfiRaise ==
    /\ UNCHANGED <<sortVars, compVars, stabVars, seedVars>>
    /\ f_pc = "owned" /\ ret_code # 0
    /\ f_pc' = "raising"
    /\ UNCHANGED <<ctx, drops, calls, ret_code>>

\* The panic unwinds out of the block: _cmp_fn_box is dropped on the way.
FfiUnwind ==
    /\ UNCHANGED <<sortVars, compVars, stabVars, seedVars>>
    /\ f_pc = "raising"
    /\ ctx' = IF ctx = "boxed" THEN "dropped" ELSE ctx
    /\ drops' = IF ctx = "boxed" THEN drops + 1 ELSE drops
    /\ f_pc' = "panicked"
    /\ UNCHANGED <<calls, ret_code>>

InitFfi ==
    /\ SortOff /\ CompOff /\ StabOff /\ SeedOff
    /\ f_pc = "start" /\ ctx = "none" /\ drops = 0 /\ calls = <<>> /\ ret_code = 0

NextFfi == FfiBox \/ FfiCompare \/ FfiReturn \/ FfiEnd \/ FfiRaise \/ FfiUnwind

SpecFfi == InitFfi /\ [][NextFfi]_vars


\* ================================================================ seed
Threads == 1..NThreads

\* The tests by what they do with the seed: "test_impl" generates its input
\* and then calls sort_comp (random, ascending, ...); "comp_panic" calls
\* get_or_init_random_seed first; "stability" (and observable_is_less,
\* panic_retain_original_set, violate_ord_retain_original_set) never calls it.
Kinds == {"test_impl", "comp_panic", "stability"}

\* Where a test goes after a sort: its next test size, or its end.
AfterSort(t) == IF titer[t] + 1 < MaxIter THEN "gen" ELSE "end"

\* pattern_fn(test_size), patterns::random(test_size): seeded input.
TGen(t) ==
    /\ UNCHANGED <<sortVars, compVars, stabVars, ffiVars>>
    /\ tpc[t] = "gen"
    /\ \E s \in SeedChoices : seed_value' = s
    /\ tgen' = [tgen EXCEPT ![t] = TRUE]
    /\ tpc' = [tpc EXCEPT ![t] = IF tkind[t] = "test_impl" THEN "seed" ELSE "sort"]
    /\ UNCHANGED <<SEED_WRITTEN, lock_owner, first_locker, stdout, returned, tkind,
                   tseed, titer, tsorted>>

\* get_or_init_random_seed: let seed = patterns::random_init_seed()
TSeedRead(t) ==
    /\ UNCHANGED <<sortVars, compVars, stabVars, ffiVars>>
    /\ tpc[t] = "seed"
    /\ \E s \in SeedChoices :
          /\ seed_value' = s
          /\ tseed' = [tseed EXCEPT ![t] = s]
    /\ tpc' = [tpc EXCEPT ![t] = "lock"]
    /\ UNCHANGED <<SEED_WRITTEN, lock_owner, first_locker, stdout, returned, tkind,
                   titer, tgen, tsorted>>

\* get_or_init_random_seed: SEED_WRITTEN.lock().unwrap()
TLock(t) ==
    /\ UNCHANGED <<sortVars, compVars, stabVars, ffiVars>>
    /\ tpc[t] = "lock" /\ lock_owner = 0
    /\ lock_owner' = t
    /\ first_locker' = IF first_locker = 0 THEN t ELSE first_locker
    /\ tpc' = [tpc EXCEPT ![t] = "crit"]
    /\ UNCHANGED <<seed_value, SEED_WRITTEN, stdout, returned, tkind, tseed, titer,
                   tgen, tsorted>>

\* get_or_init_random_seed: write the line unless it is written.
TWrite(t) ==
    /\ UNCHANGED <<sortVars, compVars, stabVars, ffiVars>>
    /\ tpc[t] = "crit"
    /\ IF NeedsWrite
       THEN /\ stdout' = Append(stdout, SeedLine(tseed[t], t))
            /\ SEED_WRITTEN' = TRUE
       ELSE UNCHANGED <<stdout, SEED_WRITTEN>>
    /\ tpc' = [tpc EXCEPT ![t] = "ret"]
    /\ UNCHANGED <<seed_value, lock_owner, first_locker, returned, tkind, tseed,
                   titer, tgen, tsorted>>

\* get_or_init_random_seed: the guard is dropped, seed is returned.
TReturn(t) ==
    /\ UNCHANGED <<sortVars, compVars, stabVars, ffiVars>>
    /\ tpc[t] = "ret"
    /\ lock_owner' = 0
    /\ returned' = returned \cup {tseed[t]}
    /\ tpc' = [tpc EXCEPT ![t] = IF tkind[t] = "test_impl" THEN "sort" ELSE "gen"]
    /\ UNCHANGED <<seed_value, SEED_WRITTEN, first_locker, stdout, tkind, tseed,
                   titer, tgen, tsorted>>

\* The test calls the subject sorter on its input.
TSort(t) ==
    /\ UNCHANGED <<sortVars, compVars, stabVars, ffiVars>>
    /\ tpc[t] = "sort"
    /\ tsorted' = [tsorted EXCEPT ![t] = TRUE]
    /\ titer' = [titer EXCEPT ![t] = @ + 1]
    /\ tpc' = [tpc EXCEPT ![t] = AfterSort(t)]
    /\ UNCHANGED <<seed_value, SEED_WRITTEN, lock_owner, first_locker, stdout,
                   returned, tkind, tseed, tgen>>

InitSeed ==
    /\ SortOff /\ CompOff /\ StabOff /\ FfiOff
    /\ SeedFresh
    /\ tkind \in [Threads -> Kinds]
    /\ tpc = [t \in Threads |-> IF tkind[t] = "comp_panic" THEN "seed" ELSE "gen"]
    /\ tseed = [t \in Threads |-> 0]
    /\ titer = [t \in Threads |-> 0]
    /\ tgen = [t \in Threads |-> FALSE]
    /\ tsorted = [t \in Threads |-> FALSE]

NextSeed ==
    \E t \in Threads :
        \/ TGen(t) \/ TSeedRead(t) \/ TLock(t) \/ TWrite(t) \/ TReturn(t) \/ TSort(t)

SpecSeed == InitSeed /\ [][NextSeed]_vars

\* =============================================================== claims

C7_Observable ==
    (test = "observable" /\ sphase = "returned")
        => Sum(CountsOf(buf)) = 2 * comp_count_gloabl

\* A sort that compared at least twice and moved an element has returned.
C7_Witness ==
    /\ test = "observable" /\ sphase = "returned"
    /\ comp_count_gloabl >= 2 /\ ValsOf(buf) # test_data

\* C10 (as claimed): at the start of every sort_by call of the adversarial
\* test, the comparator state has its initial value.
C10_FreshAtStart ==
    (test = "violate" /\ sphase = "called")
        => <<random_idx, last_element_a, last_element_b>> = <<0, -1, -1>>

\* C10 (amended): the comparator state is never reset between sort_by calls:
\* from the return of one call to the first comparison of the next it keeps
\* the value the last comparator invocation left.
C10_StateCarried ==
    [][(test = "violate" /\ sphase \in {"idle", "called", "returned"})
         => <<random_idx, last_element_a, last_element_b>>' =
            <<random_idx, last_element_a, last_element_b>>]_vars

\* A sort_by call starts with state left by an earlier call.
C10_Witness ==
    /\ test = "violate" /\ sphase = "called" /\ cmp = "nontrans"
    /\ <<last_element_a, last_element_b>> # <<-1, -1>>

\* A sequence is the sorted copy of another: non-decreasing, same elements as often.
IsSortedCopy(t, v) ==
    /\ Len(t) = Len(v)
    /\ \A k \in 1..(Len(t) - 1) : t[k] <= t[k + 1]
    /\ \A x \in Range(v) \cup Range(t) :
          Cardinality({k \in 1..Len(t) : t[k] = x}) =
          Cardinality({k \in 1..Len(v) : v[k] = x})

\* C2: sort_comp passes exactly when the subject's result is, index by index,
\* the sorted copy of the input, and fails at the first index that differs.
C2_PassIffEqual ==
    /\ c_pc = "passed" => IsSortedCopy(testsort_sorted, original_clone)
    /\ c_pc = "failed" =>
          /\ ~IsSortedCopy(testsort_sorted, original_clone)
          /\ testsort_sorted[ck] # stdlib_sorted[ck]
          /\ \A k \in 1..(ck - 1) : testsort_sorted[k] = stdlib_sorted[k]
          /\ report = IF Len(original_clone) <= SmallLimit THEN "stderr" ELSE "files"
    /\ (c_pc = "passed" /\ original_clone = <<15, -1, 3, -1, -3, -1, 7>>)
          => testsort_sorted = <<-3, -1, -1, -1, 3, 7, 15>>

\* The seven-element input of basic() passed: the subject had rearranged it.
C2_Witness ==
    /\ c_pc = "passed" /\ original_clone = <<15, -1, 3, -1, -3, -1, 7>>
    /\ testsort_sorted # original_clone

\* The result is ordered by key, and elements with equal keys are in the order
\* they had in orig.
StableResult ==
    \A a, b \in 1..Len(v_idx) :
        a < b => /\ V[a][1] <= V[b][1]
                 /\ V[a][1] = V[b][1] => v_idx[a] < v_idx[b]

\* C3: the assertion of the stability test passes exactly when the rearranged
\* sequence is ordered by key with equal keys in their original relative order.
C3_AssertIffStable ==
    /\ asserted = "pass" => StableResult
    /\ asserted = "fail" => ~StableResult

\* The assertion passed on a result that moved elements and has an equal key.
C3_Witness ==
    /\ asserted = "pass"
    /\ \E a, b \in 1..Len(v_idx) : a < b /\ V[a][1] = V[b][1]
    /\ \E k \in 1..Len(v_idx) : v_idx[k] # k

\* C4: every call of rust_fn_cmp returns to the foreign caller without an
\* unwind; is_panic is false and is_less tells whether the closure returned
\* Less when the closure returned, is_less is false and is_panic true when the
\* closure panicked.
C4_ShimResult ==
    \A k \in 1..Len(calls) :
        LET c == calls[k]
        IN  /\ ~c.result.unwinds
            /\ c.outcome # "Panic" =>
                  /\ ~c.result.is_panic
                  /\ c.result.is_less <=> (c.outcome = "Less")
            /\ c.outcome = "Panic" =>
                  /\ ~c.result.is_less
                  /\ c.result.is_panic

\* The foreign sort got a Less, something that is not Less, and then a panic.
C4_Witness ==
    /\ Len(calls) >= 3
    /\ calls[1].outcome = "Less" /\ calls[2].outcome = "Greater"
    /\ calls[3].outcome = "Panic"

\* The closure is dropped exactly once on every exit path and never while the
\* foreign call runs.
DroppedOnce ==
    /\ drops <= 1
    /\ f_pc \in {"start", "foreign"} => drops = 0 /\ ctx \in {"none", "raw"}
    /\ f_pc \in {"done", "panicked"} => drops = 1 /\ ctx = "dropped"
    /\ f_pc = "done" => ret_code = 0
    /\ f_pc = "panicked" => ret_code # 0

C9_SeedBeforeBody ==
    \A t \in Threads : (tgen[t] \/ tsorted[t]) => Len(stdout) >= 1

====
